---- MODULE Spec2Model ----
(***************************************************************************)
(* A model of the appcenter-rs crash reporting agent (src/src/lib.rs,      *)
(* src/src/device.rs, src/src/utils.rs): the panic hook installed by       *)
(* AppCenter::start, the report it builds, the enrichment callback, the    *)
(* serialization of the report and its single delivery attempt.            *)
(*                                                                         *)
(* Strings whose content matters are sequences of one-character strings;   *)
(* byte vectors are sequences of numbers in 0..255; Option<T> is a record  *)
(* with a `some` flag.                                                     *)
(***************************************************************************)
EXTENDS Integers, Sequences, FiniteSets, TLC

(***************************************************************************)
(* Bounds of the model.                                                    *)
(***************************************************************************)
\* Number of panics raised in one behaviour.
MaxFailures == 2
\* Number of add_*_attachement calls one callback run makes.
MaxAttach == 2
\* The agents a host program starts, at most.
MaxAgents == 2

(***************************************************************************)
(* Option<T>                                                               *)
(***************************************************************************)
None == [some |-> FALSE]
Some(x) == [some |-> TRUE, v |-> x]

(***************************************************************************)
(* Text helpers.                                                           *)
(***************************************************************************)
Digit == <<"0", "1", "2", "3", "4", "5", "6", "7", "8", "9">>

\* format!("{}", n) for an unsigned number.
RECURSIVE ToDecimal(_)
ToDecimal(n) ==
    IF n < 10 THEN <<Digit[n + 1]>>
    ELSE ToDecimal(n \div 10) \o <<Digit[(n % 10) + 1]>>

IsPrefix(p, s) == Len(p) <= Len(s) /\ SubSeq(s, 1, Len(p)) = p

(***************************************************************************)
(* base64::encode (standard alphabet, '=' padding), used by as_base64.     *)
(***************************************************************************)
B64Alphabet ==
    << "A","B","C","D","E","F","G","H","I","J","K","L","M","N","O","P",
       "Q","R","S","T","U","V","W","X","Y","Z","a","b","c","d","e","f",
       "g","h","i","j","k","l","m","n","o","p","q","r","s","t","u","v",
       "w","x","y","z","0","1","2","3","4","5","6","7","8","9","+","/" >>

B64Char(n) == B64Alphabet[n + 1]

RECURSIVE base64_encode(_)
base64_encode(bytes) ==
    IF Len(bytes) = 0 THEN <<>>
    ELSE IF Len(bytes) = 1 THEN
        << B64Char(bytes[1] \div 4), B64Char((bytes[1] % 4) * 16), "=", "=" >>
    ELSE IF Len(bytes) = 2 THEN
        << B64Char(bytes[1] \div 4),
           B64Char((bytes[1] % 4) * 16 + bytes[2] \div 16),
           B64Char((bytes[2] % 16) * 4), "=" >>
    ELSE
        << B64Char(bytes[1] \div 4),
           B64Char((bytes[1] % 4) * 16 + bytes[2] \div 16),
           B64Char((bytes[2] % 16) * 4 + bytes[3] \div 64),
           B64Char(bytes[3] % 64) >>
        \o base64_encode(SubSeq(bytes, 4, Len(bytes)))

\* str::as_bytes: the UTF-8 encoding of a text given as its code points
\* (code points below U+0800).
RECURSIVE as_bytes(_)
as_bytes(text) ==
    IF Len(text) = 0 THEN <<>>
    ELSE (IF text[1] < 128 THEN <<text[1]>>
          ELSE <<192 + (text[1] \div 64), 128 + (text[1] % 64)>>)
         \o as_bytes(Tail(text))

(***************************************************************************)
(* JSON values, as serde_json builds them.  An object is the sequence of   *)
(* its members in the order they are written.                              *)
(***************************************************************************)
JNull == [t |-> "null"]
JStr(s) == [t |-> "string", v |-> s]
JNum(n) == [t |-> "number", v |-> n]
JBool(b) == [t |-> "bool", v |-> b]
JArr(s) == [t |-> "array", v |-> s]
JObj(members) == [t |-> "object", v |-> members]
Member(k, j) == [k |-> k, j |-> j]

\* A field written only when present (#[serde(skip_serializing_if = "Option::is_none")]).
SkipIfNone(k, opt, j) == IF opt.some THEN <<Member(k, j)>> ELSE <<>>
\* An Option field with no attribute: serde writes None as null.
OptionValue(opt, j) == IF opt.some THEN j ELSE JNull

HasKey(obj, k) == \E i \in 1..Len(obj.v) : obj.v[i].k = k
Get(obj, k) == obj.v[CHOOSE i \in 1..Len(obj.v) : obj.v[i].k = k].j

\* The members of the objects of a JSON value that hold null, at any depth
\* the report has (logs / entry / exception / frames / frame).
RECURSIVE NullCount(_)
NullCount(j) ==
    IF j.t = "null" THEN 1
    ELSE IF j.t = "object" THEN
        LET n[i \in 0..Len(j.v)] ==
                IF i = 0 THEN 0 ELSE n[i - 1] + NullCount(j.v[i].j)
        IN n[Len(j.v)]
    ELSE IF j.t = "array" THEN
        LET n[i \in 0..Len(j.v)] ==
                IF i = 0 THEN 0 ELSE n[i - 1] + NullCount(j.v[i])
        IN n[Len(j.v)]
    ELSE 0

(***************************************************************************)
(* Device (src/src/device.rs) on the Linux target (src/src/utils.rs).      *)
(***************************************************************************)
OS_NAME == "Linux"
get_model == "Computer"
get_os_version == "Linux"
get_locale == "en_US"
get_pid == 4242

current_device(app_version, app_build) ==
    [ model |-> get_model,
      sdk_name |-> "appcenter.custom",
      sdk_version |-> "3.2.2",
      os_name |-> OS_NAME,
      os_version |-> get_os_version,
      locale |-> get_locale,
      app_version |-> app_version,
      app_build |-> IF app_build.some THEN app_build.v ELSE "" ]

SerializeDevice(d) ==
    JObj(<< Member("model", JStr(d.model)),
            Member("sdkName", JStr(d.sdk_name)),
            Member("sdkVersion", JStr(d.sdk_version)),
            Member("osName", JStr(d.os_name)),
            Member("osVersion", JStr(d.os_version)),
            Member("locale", JStr(d.locale)),
            Member("appVersion", JStr(d.app_version)),
            Member("appBuild", JStr(d.app_build)) >>)

(***************************************************************************)
(* ExceptionFrame and AppCenterException.                                  *)
(***************************************************************************)
\* One ExceptionFrame per symbol of the backtrace; address is never set.
ExceptionFrameOf(symbol) ==
    [ method_name |-> symbol.name,
      line_number |-> symbol.lineno,
      file_name |-> symbol.filename,
      address |-> None ]

collect_backtrace(symbols) == [i \in 1..Len(symbols) |-> ExceptionFrameOf(symbols[i])]

SerializeExceptionFrame(f) ==
    JObj(SkipIfNone("methodName", f.method_name, JStr(f.method_name.v))
         \o SkipIfNone("lineNumber", f.line_number, JNum(f.line_number.v))
         \o SkipIfNone("fileName", f.file_name, JStr(f.file_name.v))
         \o SkipIfNone("address", f.address, JStr(f.address.v)))

\* payload().downcast_ref::<&str>(): only a payload of type &str matches.
DowncastStr(payload) == IF payload.kind = "str" THEN Some(payload.text) ELSE None

\* format!(" at {}:{}", location.file(), location.line())
LocationText(location) ==
    <<" ", "a", "t", " ">> \o location.file \o <<":">> \o ToDecimal(location.line)

AppCenterException_new(panic_info, symbols) ==
    LET text == DowncastStr(panic_info.payload)
        message1 == IF text.some THEN text.v ELSE <<>>
        message2 == IF panic_info.location.some
                    THEN message1 \o LocationText(panic_info.location.v)
                    ELSE message1
    IN [ type |-> "panic",
         message |-> message2,
         frames |-> collect_backtrace(symbols) ]

SerializeException(e) ==
    JObj(<< Member("type", JStr(e.type)),
            Member("message", JStr(e.message)),
            Member("frames",
                   JArr([i \in 1..Len(e.frames) |-> SerializeExceptionFrame(e.frames[i])])) >>)

(***************************************************************************)
(* AppCenterLog, AppCenterLogs and their serialization.                    *)
(***************************************************************************)
\* uuid::Uuid and chrono::DateTime are written as strings.
UuidText(id) == <<"u">> \o ToDecimal(id)
TimeText(ts) == <<"T">> \o ToDecimal(ts)

SerializeUserId(user_id) == OptionValue(user_id, JStr(user_id.v))

SerializeLog(l) ==
    IF l.type = "ManagedError" THEN
        JObj(<< Member("type", JStr("managedError")),
                Member("id", JStr(UuidText(l.id))),
                Member("userId", SerializeUserId(l.user_id)),
                Member("appLaunchTimestamp", JStr(TimeText(l.app_launch_timestamp))),
                Member("timestamp", JStr(TimeText(l.timestamp))),
                Member("fatal", JBool(l.fatal)),
                Member("processId", JNum(l.process_id)),
                Member("processName", JStr(l.process_name)),
                Member("device", SerializeDevice(l.device)),
                Member("exception", SerializeException(l.exception)) >>)
    ELSE
        JObj(<< Member("type", JStr("errorAttachment")),
                Member("id", JStr(UuidText(l.id))),
                Member("errorId", JStr(UuidText(l.error_id))),
                Member("device", SerializeDevice(l.device)),
                Member("contentType", JStr(l.content_type)),
                Member("data", JStr(base64_encode(l.data))) >>
             \o SkipIfNone("fileName", l.file_name, JStr(l.file_name.v)))

\* serde_json::to_vec(&payload) of an AppCenterLogs value.
to_vec(logs) ==
    JObj(<< Member("logs", JArr([i \in 1..Len(logs) |-> SerializeLog(logs[i])])) >>)

\* A slip: the record gets the nil id, not a fresh one.
new_payload_NilId(inner, uid, id, now, panic_info, symbols) ==
    << [ type |-> "ManagedError",
         id |-> 0,
         user_id |-> uid,
         app_launch_timestamp |-> inner.app_launch_timestamp,
         timestamp |-> now,
         fatal |-> TRUE,
         process_id |-> get_pid,
         process_name |-> "",
         device |-> current_device(inner.app_version, inner.app_build),
         exception |-> AppCenterException_new(panic_info, symbols) ] >>

\* AppCenterInner::new_payload, given the user id it read under the lock.
new_payload(inner, uid, id, now, panic_info, symbols) ==
    << [ type |-> "ManagedError",
         id |-> id,
         user_id |-> uid,
         app_launch_timestamp |-> inner.app_launch_timestamp,
         timestamp |-> now,
         fatal |-> TRUE,
         process_id |-> get_pid,
         process_name |-> "",
         device |-> current_device(inner.app_version, inner.app_build),
         exception |-> AppCenterException_new(panic_info, symbols) ] >>

\* The first entry of a report is a ManagedError; anything else is the
\* unreachable!() arm of add_attachement_inner.
FirstIsManagedError(logs) == logs[1].type = "ManagedError"

\* A slip: the back-reference is the attachment's own id.
add_attachement_inner_OwnId(logs, data, file_name, content_type, id) ==
    Append(logs,
           [ type |-> "ErrorAttachment",
             id |-> id,
             device |-> logs[1].device,
             error_id |-> id,
             content_type |-> content_type,
             data |-> data,
             file_name |-> file_name ])

add_attachement_inner(logs, data, file_name, content_type, id) ==
    Append(logs,
           [ type |-> "ErrorAttachment",
             id |-> id,
             device |-> logs[1].device,
             error_id |-> logs[1].id,
             content_type |-> content_type,
             data |-> data,
             file_name |-> file_name ])

add_binary_attachement(logs, data, file_name, id) ==
    add_attachement_inner(logs, data, file_name, "application/octet_stream", id)

\* A slip: the characters are taken for the bytes.
add_text_attachement_Raw(logs, text, file_name, id) ==
    add_attachement_inner(logs, text, file_name, "text/plain", id)

add_text_attachement(logs, text, file_name, id) ==
    add_attachement_inner(logs, as_bytes(text), file_name, "text/plain", id)

(***************************************************************************)
(* The process: threads, agents, inputs.                                   *)
(***************************************************************************)
\* The threads of the process.  In the plain host program a main thread t2
\* starts and configures one agent, and a thread t1 panics; its panics are
\* caught, so that it can panic again.
Threads == {"t1", "t2"}
Hosts == {"t2"}
Panickers == {"t1"}

\* The agents a host may start; they are numbered in the order of their
\* take_hook steps.
Agents == 1..MaxAgents

\* The panic hook in place before the first AppCenter::start (the default
\* hook of the runtime, or whatever the host had installed).
DefaultHook == 0

Str_boom == <<"b", "o", "o", "m">>
Str_example_rs == <<"e", "x", "a", "m", "p", "l", "e", ".", "r", "s">>
Str_lib_rs == <<"l", "i", "b", ".", "r", "s">>
Str_main == <<"m", "a", "i", "n">>
Str_alice == <<"a", "l", "i", "c", "e">>

\* What a panic hands to the hook: the payload (&'static str for a literal
\* message, String for a formatted one, anything else for panic_any) and the
\* location, when known.
Payloads ==
    { [kind |-> "str", text |-> Str_boom],
      [kind |-> "str", text |-> <<>>],
      [kind |-> "String", text |-> Str_boom],
      [kind |-> "String", text |-> <<>>],
      [kind |-> "other", text |-> <<>>] }

Locations ==
    { None,
      Some([file |-> Str_example_rs, line |-> 42]),
      Some([file |-> Str_lib_rs, line |-> 100]) }

PanicInfos == [payload : Payloads, location : Locations]

\* What Backtrace::new() resolves: per symbol a name, a line and a file name,
\* each of which may be missing.
Backtraces ==
    { << [ name |-> Some(Str_main), lineno |-> Some(7),
           filename |-> Some(Str_lib_rs) ],
         [ name |-> None, lineno |-> None, filename |-> None ] >>,
      << [ name |-> Some(Str_main), lineno |-> None, filename |-> None ] >> }

UserIdArgs == {None, Some(Str_alice)}
Callbacks == {"cb1"}
BinaryArgs == { [data |-> <<1, 2, 255>>, file_name |-> None] }
TextArgs == { [text |-> <<104, 233>>, file_name |-> Some("note.txt")] }

Free == "free"

VARIABLES
    hook,             \* the process-wide panic hook: DefaultHook or an agent
    astate,           \* per agent: "unborn", "constructed" or "started"
    inner,            \* per agent: the immutable fields of AppCenterInner
    old_hook,         \* per agent: the hook its set_panic_hook captured
    user_id,          \* per agent: the value in the user_id mutex
    on_report,        \* per agent: the value in the on_report mutex
    installed,        \* per agent: the callback set_report_callback stored last
    user_id_lock,     \* per agent: the thread holding the user_id mutex
    on_report_lock,   \* per agent: the thread holding the on_report mutex
    next_uuid,        \* uuid::Uuid::new_v4: the ids not handed out yet
    clock,            \* chrono::Utc::now
    failures,         \* panics raised so far
    aborted,          \* the process was aborted by a panic inside a hook
    pc,               \* per thread: where it is
    cur,              \* per thread: the agent it works on / whose hook it runs
    panic_info,       \* per thread: the PanicInfo of the panic it handles
    payload,          \* per thread: the hook's local `payload` (the logs)
    report_callback,  \* per thread: the hook's local `report_callback`
    request,          \* per thread: the HTTP request in flight
    response,         \* per thread: what send() returned
    added,            \* per thread: the arguments of the callback's add_* calls
    events            \* per thread: what the hooks did for the current panic

vars == << hook, astate, inner, old_hook, user_id, on_report, installed,
           user_id_lock,
           on_report_lock, next_uuid, clock, failures, aborted, pc, cur,
           panic_info, payload, report_callback, request, response, added,
           events >>

agent_vars == << astate, inner, old_hook >>
slot_vars == << on_report, installed >>
lock_vars == << user_id_lock, on_report_lock >>
local_vars == << panic_info, payload, report_callback, request, response, added >>

NoInner == [ app_secret |-> "", app_version |-> "", app_build |-> None,
             app_launch_timestamp |-> 0 ]
NoInfo == [ payload |-> [kind |-> "none", text |-> <<>>], location |-> None ]

Ev(e, a, x) == [ev |-> e, agent |-> a, arg |-> x]

Init ==
    /\ hook = DefaultHook
    /\ astate = [a \in Agents |-> "unborn"]
    /\ inner = [a \in Agents |-> NoInner]
    /\ old_hook = [a \in Agents |-> DefaultHook]
    /\ user_id = [a \in Agents |-> None]
    /\ on_report = [a \in Agents |-> None]
    /\ installed = [a \in Agents |-> None]
    /\ user_id_lock = [a \in Agents |-> Free]
    /\ on_report_lock = [a \in Agents |-> Free]
    /\ next_uuid = 1
    /\ clock = 1
    /\ failures = 0
    /\ aborted = FALSE
    /\ pc = [t \in Threads |-> "idle"]
    /\ cur = [t \in Threads |-> DefaultHook]
    /\ panic_info = [t \in Threads |-> NoInfo]
    /\ payload = [t \in Threads |-> <<>>]
    /\ report_callback = [t \in Threads |-> None]
    /\ request = [t \in Threads |-> None]
    /\ response = [t \in Threads |-> None]
    /\ added = [t \in Threads |-> <<>>]
    /\ events = [t \in Threads |-> <<>>]

At(t, p) == ~aborted /\ pc[t] = p
Goto(t, p) == pc' = [pc EXCEPT ![t] = p]
Log(t, e) == events' = [events EXCEPT ![t] = Append(@, e)]

\* A thread is inside the panic hook: the runtime holds the hook's lock for
\* reading while the hook runs, so take_hook and set_hook wait.
InHook(t) ==
    pc[t] \notin {"idle", "set_hook", "set_user_id", "set_report_callback", "panic_done"}
NoHookRunning == \A t \in Threads : ~InHook(t)

(***************************************************************************)
(* AppCenter::start: construct the inner state, then set_panic_hook, which *)
(* is panic::take_hook followed by panic::set_hook.                        *)
(***************************************************************************)
StartTakeHook(t, a) ==
    /\ At(t, "idle")
    /\ NoHookRunning
    /\ astate[a] = "unborn"
    /\ \A b \in Agents : b < a => astate[b] # "unborn"
    /\ astate' = [astate EXCEPT ![a] = "constructed"]
    /\ inner' = [inner EXCEPT ![a] =
                    [ app_secret |-> "secret", app_version |-> "1.0.0",
                      app_build |-> None, app_launch_timestamp |-> clock ]]
    /\ old_hook' = [old_hook EXCEPT ![a] = hook]
    /\ cur' = [cur EXCEPT ![t] = a]
    /\ hook' = DefaultHook
    /\ clock' = clock + 1
    /\ Goto(t, "set_hook")
    /\ UNCHANGED << user_id, slot_vars, lock_vars, next_uuid, failures, aborted,
                    local_vars, events >>

StartSetHook(t) ==
    /\ At(t, "set_hook")
    /\ NoHookRunning
    /\ hook' = cur[t]
    /\ astate' = [astate EXCEPT ![cur[t]] = "started"]
    /\ Goto(t, "idle")
    /\ UNCHANGED << inner, old_hook, user_id, slot_vars, lock_vars, next_uuid,
                    clock, failures, aborted, cur, local_vars, events >>

(***************************************************************************)
(* AppCenter::set_user_id and AppCenter::set_report_callback, on the       *)
(* handle start returned.                                                  *)
(***************************************************************************)
SetUserIdLock(t) ==
    /\ At(t, "idle")
    /\ \E a \in Agents :
        /\ astate[a] = "started"
        /\ user_id_lock[a] = Free
        /\ user_id_lock' = [user_id_lock EXCEPT ![a] = t]
        /\ cur' = [cur EXCEPT ![t] = a]
    /\ Goto(t, "set_user_id")
    /\ UNCHANGED << hook, agent_vars, user_id, slot_vars, on_report_lock,
                    next_uuid, clock, failures, aborted, local_vars, events >>

SetUserIdStore(t) ==
    /\ At(t, "set_user_id")
    /\ \E id \in UserIdArgs : user_id' = [user_id EXCEPT ![cur[t]] = id]
    /\ user_id_lock' = [user_id_lock EXCEPT ![cur[t]] = Free]
    /\ Goto(t, "idle")
    /\ UNCHANGED << hook, agent_vars, slot_vars, on_report_lock, next_uuid,
                    clock, failures, aborted, cur, local_vars, events >>

SetReportCallbackLock(t) ==
    /\ At(t, "idle")
    /\ \E a \in Agents :
        /\ astate[a] = "started"
        /\ on_report_lock[a] = Free
        /\ on_report_lock' = [on_report_lock EXCEPT ![a] = t]
        /\ cur' = [cur EXCEPT ![t] = a]
    /\ Goto(t, "set_report_callback")
    /\ UNCHANGED << hook, agent_vars, user_id, slot_vars, user_id_lock,
                    next_uuid, clock, failures, aborted, local_vars, events >>

\* Box::new(callback): the stored callback is a value of its own, told from
\* every other boxed callback that is still alive (in another agent's slot
\* or in the hands of a running hook) by its address.
LiveBoxes(a) ==
    {on_report[b].v.box : b \in {x \in Agents : x # a /\ on_report[x].some}}
    \cup {report_callback[u].v.box : u \in {x \in Threads : report_callback[x].some}}

NewBox(a) ==
    CHOOSE n \in 1..(Cardinality(Agents) + Cardinality(Threads)) :
        /\ n \notin LiveBoxes(a)
        /\ \A m \in 1..(n - 1) : m \in LiveBoxes(a)

SetReportCallbackStore(t) ==
    /\ At(t, "set_report_callback")
    /\ \E cb \in Callbacks :
        LET boxed == Some([fn |-> cb, box |-> NewBox(cur[t])])
        IN /\ on_report' = [on_report EXCEPT ![cur[t]] = boxed]
           /\ installed' = [installed EXCEPT ![cur[t]] = boxed]
    /\ on_report_lock' = [on_report_lock EXCEPT ![cur[t]] = Free]
    /\ Goto(t, "idle")
    /\ UNCHANGED << hook, agent_vars, user_id, user_id_lock, next_uuid,
                    clock, failures, aborted, cur, local_vars, events >>

(***************************************************************************)
(* A panic: the runtime runs the hook that is installed at that moment.    *)
(***************************************************************************)
HookEntry(h) == IF h = DefaultHook THEN "default_hook" ELSE "new_payload"

Panic(t) ==
    /\ At(t, "idle")
    /\ failures < MaxFailures
    /\ failures' = failures + 1
    /\ \E info \in PanicInfos :
        /\ panic_info' = [panic_info EXCEPT ![t] = info]
        /\ events' = [events EXCEPT ![t] =
                        <<Ev("panic", hook, [info |-> info, installed |-> installed,
                                             agents |-> astate])>>]
    /\ cur' = [cur EXCEPT ![t] = hook]
    /\ Goto(t, HookEntry(hook))
    /\ UNCHANGED << hook, agent_vars, user_id, slot_vars, lock_vars, next_uuid,
                    clock, aborted, payload, report_callback, request,
                    response, added >>

(***************************************************************************)
(* The closure set_panic_hook installs, run by thread t for agent cur[t].  *)
(* A local of the closure is reset once the closure no longer reads it.    *)
(***************************************************************************)
\* new_payload: let user_id = { (*self.user_id.lock().unwrap()).clone() };
\* A slip: the guard lives as long as the report, so the user_id lock stays
\* with the hook.
NewPayload_KeepLock(t) ==
    /\ At(t, "new_payload_locked")
    /\ \E symbols \in Backtraces :
        payload' = [payload EXCEPT ![t] =
                       new_payload(inner[cur[t]], user_id[cur[t]], next_uuid,
                                   clock, panic_info[t], symbols)]
    /\ next_uuid' = next_uuid + 1
    /\ clock' = clock + 1
    /\ Log(t, Ev("built", cur[t], next_uuid))
    /\ Goto(t, "take_callback")
    /\ UNCHANGED << hook, agent_vars, user_id, slot_vars, lock_vars,
                    failures, aborted, cur, panic_info, report_callback,
                    request, response, added >>

NewPayloadLock(t) ==
    /\ At(t, "new_payload")
    /\ user_id_lock[cur[t]] = Free
    /\ user_id_lock' = [user_id_lock EXCEPT ![cur[t]] = t]
    /\ Goto(t, "new_payload_locked")
    /\ UNCHANGED << hook, agent_vars, user_id, slot_vars, on_report_lock,
                    next_uuid, clock, failures, aborted, cur, local_vars, events >>

NewPayload(t) ==
    /\ At(t, "new_payload_locked")
    /\ \E symbols \in Backtraces :
        payload' = [payload EXCEPT ![t] =
                       new_payload(inner[cur[t]], user_id[cur[t]], next_uuid,
                                   clock, panic_info[t], symbols)]
    /\ user_id_lock' = [user_id_lock EXCEPT ![cur[t]] = Free]
    /\ next_uuid' = next_uuid + 1
    /\ clock' = clock + 1
    /\ Log(t, Ev("built", cur[t], next_uuid))
    /\ Goto(t, "take_callback")
    /\ UNCHANGED << hook, agent_vars, user_id, slot_vars, on_report_lock,
                    failures, aborted, cur, panic_info, report_callback,
                    request, response, added >>

\* let report_callback = { app_center.on_report.lock().unwrap().take() };
TakeCallbackLock(t) ==
    /\ At(t, "take_callback")
    /\ on_report_lock[cur[t]] = Free
    /\ on_report_lock' = [on_report_lock EXCEPT ![cur[t]] = t]
    /\ Goto(t, "take_callback_locked")
    /\ UNCHANGED << hook, agent_vars, user_id, slot_vars, user_id_lock,
                    next_uuid, clock, failures, aborted, cur, local_vars, events >>

\* A slip: the guard is kept, so the on_report lock stays with the hook.
TakeCallback_KeepLock(t) ==
    /\ At(t, "take_callback_locked")
    /\ report_callback' = [report_callback EXCEPT ![t] = on_report[cur[t]]]
    /\ on_report' = [on_report EXCEPT ![cur[t]] = None]
    /\ IF on_report[cur[t]].some
       THEN /\ Log(t, Ev("callback", cur[t], on_report[cur[t]].v))
            /\ Goto(t, "callback")
       ELSE /\ UNCHANGED events
            /\ Goto(t, "deliver")
    /\ UNCHANGED << hook, agent_vars, user_id, installed, lock_vars,
                    next_uuid, clock, failures, aborted, cur, panic_info,
                    payload, request, response, added >>

\* A slip: the callback is read and left in the slot.
TakeCallback_Clone(t) ==
    /\ At(t, "take_callback_locked")
    /\ report_callback' = [report_callback EXCEPT ![t] = on_report[cur[t]]]
    /\ on_report_lock' = [on_report_lock EXCEPT ![cur[t]] = Free]
    /\ IF on_report[cur[t]].some
       THEN /\ Log(t, Ev("callback", cur[t], on_report[cur[t]].v))
            /\ Goto(t, "callback")
       ELSE /\ UNCHANGED events
            /\ Goto(t, "deliver")
    /\ UNCHANGED << hook, agent_vars, user_id, slot_vars, user_id_lock,
                    next_uuid, clock, failures, aborted, cur, panic_info,
                    payload, request, response, added >>

\* Option::take leaves None in the slot; the callback, when there is one, is
\* then called with the lock released.
TakeCallback(t) ==
    /\ At(t, "take_callback_locked")
    /\ report_callback' = [report_callback EXCEPT ![t] = on_report[cur[t]]]
    /\ on_report' = [on_report EXCEPT ![cur[t]] = None]
    /\ on_report_lock' = [on_report_lock EXCEPT ![cur[t]] = Free]
    /\ IF on_report[cur[t]].some
       THEN /\ Log(t, Ev("callback", cur[t], on_report[cur[t]].v))
            /\ Goto(t, "callback")
       ELSE /\ UNCHANGED events
            /\ Goto(t, "deliver")
    /\ UNCHANGED << hook, agent_vars, user_id, installed, user_id_lock,
                    next_uuid, clock, failures, aborted, cur, panic_info,
                    payload, request, response, added >>

\* The callback calls add_binary_attachement / add_text_attachement on the
\* report; a first entry that is no ManagedError is the unreachable!() arm,
\* a panic inside the hook, which aborts the process.
AddAttachment(t, logs, call) ==
    /\ At(t, "callback")
    /\ Len(added[t]) < MaxAttach
    /\ added' = [added EXCEPT ![t] = Append(@, call)]
    /\ IF FirstIsManagedError(payload[t])
       THEN /\ payload' = [payload EXCEPT ![t] = logs]
            /\ next_uuid' = next_uuid + 1
            /\ UNCHANGED << aborted, events >>
       ELSE /\ aborted' = TRUE
            /\ Log(t, Ev("unreachable", cur[t], ""))
            /\ UNCHANGED << payload, next_uuid >>
    /\ UNCHANGED << hook, agent_vars, user_id, slot_vars, lock_vars, clock,
                    failures, pc, cur, panic_info, report_callback, request,
                    response >>

CallbackAddBinary(t) ==
    \E arg \in BinaryArgs :
        AddAttachment(t,
                      add_binary_attachement(payload[t], arg.data,
                                             arg.file_name, next_uuid),
                      [fn |-> "binary", arg |-> arg, bytes |-> arg.data,
                       file_name |-> arg.file_name, id |-> next_uuid])

CallbackAddText(t) ==
    \E arg \in TextArgs :
        AddAttachment(t,
                      add_text_attachement(payload[t], arg.text,
                                           arg.file_name, next_uuid),
                      [fn |-> "text", arg |-> arg, bytes |-> as_bytes(arg.text),
                       file_name |-> arg.file_name, id |-> next_uuid])

CallbackReturn(t) ==
    /\ At(t, "callback")
    /\ report_callback' = [report_callback EXCEPT ![t] = None]
    /\ Log(t, Ev("callback_returned", cur[t], ""))
    /\ Goto(t, "deliver")
    /\ UNCHANGED << hook, agent_vars, user_id, slot_vars, lock_vars, next_uuid,
                    clock, failures, aborted, cur, panic_info, payload,
                    request, response, added >>

\* reqwest::blocking::Client::builder()...build() fails: the whole delivery
\* is skipped.
BuildClientErr(t) ==
    /\ At(t, "deliver")
    /\ payload' = [payload EXCEPT ![t] = <<>>]
    /\ added' = [added EXCEPT ![t] = <<>>]
    /\ Log(t, Ev("no_client", cur[t], ""))
    /\ Goto(t, "old_hook")
    /\ UNCHANGED << hook, agent_vars, user_id, slot_vars, lock_vars, next_uuid,
                    clock, failures, aborted, cur, panic_info, report_callback,
                    request, response >>

PostRequest(a, body) ==
    [ method |-> "POST",
      url |-> "https://in.appcenter.ms/logs?Api-Version=1.0.0",
      content_type |-> "application/json",
      app_secret |-> inner[a].app_secret,
      install_id |-> "00000000-0000-0000-0000-000000000001",
      body |-> body ]

\* The client is built, the report is serialized and the request is sent.
SendBody(t, logs) ==
    /\ At(t, "deliver")
    /\ request' = [request EXCEPT ![t] = Some(PostRequest(cur[t], to_vec(logs)))]
    /\ events' = [events EXCEPT ![t] =
                     @ \o <<Ev("serialized", cur[t], ""), Ev("post", cur[t], "")>>]
    /\ Goto(t, "sending")
    /\ UNCHANGED << hook, agent_vars, user_id, slot_vars, lock_vars, next_uuid,
                    clock, failures, aborted, cur, panic_info, payload,
                    report_callback, response, added >>

\* A slip: the user id is read again when the report is sent.
Send_CurrentUserId(t) ==
    SendBody(t, [payload[t] EXCEPT ![1].user_id = user_id[cur[t]]])

\* A slip: the report is serialized as new_payload built it.
Send_BeforeCallback(t) == SendBody(t, <<payload[t][1]>>)

Send(t) == SendBody(t, payload[t])

\* serde_json::to_vec returns Err: .unwrap() panics inside the hook, which
\* aborts the process.
SerializeErr(t) ==
    /\ At(t, "deliver")
    /\ aborted' = TRUE
    /\ Log(t, Ev("serialize_failed", cur[t], ""))
    /\ UNCHANGED << hook, agent_vars, user_id, slot_vars, lock_vars, next_uuid,
                    clock, failures, pc, cur, local_vars >>

\* A slip: a failed delivery is tried again.
Received_Retry(t, result, level) ==
    /\ At(t, "sending")
    /\ response' = [response EXCEPT ![t] = Some(result)]
    /\ request' = [request EXCEPT ![t] = None]
    /\ Log(t, Ev(level, cur[t], ""))
    /\ Goto(t, IF level = "log_error" THEN "deliver" ELSE "old_hook")
    /\ UNCHANGED << hook, agent_vars, user_id, slot_vars, lock_vars, next_uuid,
                    clock, failures, aborted, cur, panic_info, payload,
                    report_callback, added >>

\* send() has returned: the request is over and the report is not read again.
Received(t, result, level) ==
    /\ At(t, "sending")
    /\ response' = [response EXCEPT ![t] = Some(result)]
    /\ request' = [request EXCEPT ![t] = None]
    /\ payload' = [payload EXCEPT ![t] = <<>>]
    /\ added' = [added EXCEPT ![t] = <<>>]
    /\ Log(t, Ev(level, cur[t], ""))
    /\ Goto(t, "old_hook")
    /\ UNCHANGED << hook, agent_vars, user_id, slot_vars, lock_vars, next_uuid,
                    clock, failures, aborted, cur, panic_info, report_callback >>

\* send() returned Ok(resp), whatever the status: log::info!
SendOk(t) == \E status \in {"200", "500"} : Received(t, status, "log_info")

\* send() returned Err(err), a connection failure or a timeout: log::error!
SendErr(t) == \E err \in {"connect", "timeout"} : Received(t, err, "log_error")

\* old_hook(panic_info): the captured hook runs on the same thread, with
\* the same PanicInfo.
InvokeOldHook(t) ==
    /\ Log(t, Ev("old_hook", cur[t], panic_info[t]))
    /\ cur' = [cur EXCEPT ![t] = old_hook[cur[t]]]
    /\ response' = [response EXCEPT ![t] = None]
    /\ Goto(t, HookEntry(old_hook[cur[t]]))
    /\ UNCHANGED << hook, agent_vars, user_id, slot_vars, lock_vars, next_uuid,
                    clock, failures, aborted, panic_info, payload,
                    report_callback, request, added >>

\* A slip: the captured hook is skipped when the delivery failed.
CallOldHook_SkipOnError(t) ==
    /\ At(t, "old_hook")
    /\ IF \E i \in DOMAIN events[t] : events[t][i].ev = "log_error"
       THEN /\ Goto(t, "panic_done")
            /\ response' = [response EXCEPT ![t] = None]
            /\ UNCHANGED << hook, agent_vars, user_id, slot_vars, lock_vars,
                            next_uuid, clock, failures, aborted, cur,
                            panic_info, payload, report_callback, request,
                            added, events >>
       ELSE InvokeOldHook(t)

\* A slip: the hook of before the first start is run in place of the
\* captured one.
CallOldHook_Default(t) ==
    /\ At(t, "old_hook")
    /\ Log(t, Ev("old_hook", cur[t], panic_info[t]))
    /\ cur' = [cur EXCEPT ![t] = DefaultHook]
    /\ response' = [response EXCEPT ![t] = None]
    /\ Goto(t, "default_hook")
    /\ UNCHANGED << hook, agent_vars, user_id, slot_vars, lock_vars, next_uuid,
                    clock, failures, aborted, panic_info, payload,
                    report_callback, request, added >>

CallOldHook(t) ==
    /\ At(t, "old_hook")
    /\ InvokeOldHook(t)

\* The hook that was in place before the first start.
RunDefaultHook(t) ==
    /\ At(t, "default_hook")
    /\ Log(t, Ev("default_hook", DefaultHook, panic_info[t]))
    /\ Goto(t, "panic_done")
    /\ UNCHANGED << hook, agent_vars, user_id, slot_vars, lock_vars, next_uuid,
                    clock, failures, aborted, cur, local_vars >>

\* Every hook has returned; the thread unwinds (and may be caught).
PanicEnd(t) ==
    /\ At(t, "panic_done")
    /\ panic_info' = [panic_info EXCEPT ![t] = NoInfo]
    /\ events' = [events EXCEPT ![t] = <<>>]
    /\ cur' = [cur EXCEPT ![t] = DefaultHook]
    /\ Goto(t, "idle")
    /\ UNCHANGED << hook, agent_vars, user_id, slot_vars, lock_vars, next_uuid,
                    clock, failures, aborted, payload, report_callback, request,
                    response, added >>

\* The plain host program: one agent.
HostStep(t) ==
    \/ StartTakeHook(t, 1)
    \/ StartSetHook(t)
    \/ SetUserIdLock(t)
    \/ SetUserIdStore(t)
    \/ SetReportCallbackLock(t)
    \/ SetReportCallbackStore(t)

HookStep(t) ==
    \/ NewPayloadLock(t)
    \/ NewPayload(t)
    \/ TakeCallbackLock(t)
    \/ TakeCallback(t)
    \/ CallbackAddBinary(t)
    \/ CallbackAddText(t)
    \/ CallbackReturn(t)
    \/ BuildClientErr(t)
    \/ Send(t)
    \/ SendOk(t)
    \/ SendErr(t)
    \/ CallOldHook(t)
    \/ RunDefaultHook(t)
    \/ PanicEnd(t)

Next ==
    \/ \E t \in Hosts : HostStep(t)
    \/ \E t \in Panickers : Panic(t)
    \/ \E t \in Threads : HookStep(t)

Spec == Init /\ [][Next]_vars

\* The same program when serde_json::to_vec may return Err.
NextSer == Next \/ \E t \in Threads : SerializeErr(t)

SpecSer == Init /\ [][NextSer]_vars

(***************************************************************************)
(* Other host programs.  They raise one kind of panic, panic!("boom") at   *)
(* example.rs:42 with a backtrace of one symbol, and differ in the threads *)
(* that start agents and in the threads that panic.                        *)
(***************************************************************************)
Info_boom ==
    [ payload |-> [kind |-> "str", text |-> Str_boom],
      location |-> Some([file |-> Str_example_rs, line |-> 42]) ]

PanicBoom(t) == Panic(t) /\ panic_info'[t] = Info_boom

NewPayloadBoom(t) == NewPayload(t) /\ Len(payload'[t][1].exception.frames) = 1

BuildStep(t) ==
    \/ NewPayloadLock(t)
    \/ NewPayloadBoom(t)
    \/ TakeCallbackLock(t)
    \/ TakeCallback(t)

\* A callback that adds binary attachments.
CallbackStep(t) ==
    \/ CallbackAddBinary(t)
    \/ CallbackReturn(t)

DeliverStep(t) ==
    \/ BuildClientErr(t)
    \/ Send(t)
    \/ SendOk(t)
    \/ SendErr(t)

FallbackStep(t) ==
    \/ CallOldHook(t)
    \/ RunDefaultHook(t)
    \/ PanicEnd(t)

\* The main thread starts the agents one after another; t1 panics.
NextSeq ==
    \/ \E t \in Hosts : \E a \in Agents : StartTakeHook(t, a)
    \/ \E t \in Hosts : StartSetHook(t)
    \/ \E t \in Panickers : PanicBoom(t)
    \/ \E t \in Threads : BuildStep(t) \/ DeliverStep(t) \/ FallbackStep(t)

SpecSeq == Init /\ [][NextSeq]_vars

\* Every thread may start an agent, so that two starts can overlap; t1
\* panics.
NextRace ==
    \/ \E t \in Threads : \E a \in Agents : StartTakeHook(t, a)
    \/ \E t \in Threads : StartSetHook(t)
    \/ \E t \in Panickers : PanicBoom(t)
    \/ \E t \in Threads : BuildStep(t) \/ DeliverStep(t) \/ FallbackStep(t)

SpecRace == Init /\ [][NextRace]_vars

\* The main thread starts one agent and stores callbacks; every thread
\* panics, so that two failures can overlap.
NextTwo ==
    \/ \E t \in Hosts :
        \/ StartTakeHook(t, 1)
        \/ StartSetHook(t)
        \/ SetReportCallbackLock(t)
        \/ SetReportCallbackStore(t)
    \/ \E t \in Threads : PanicBoom(t)
    \/ \E t \in Threads :
        BuildStep(t) \/ CallbackStep(t) \/ DeliverStep(t) \/ FallbackStep(t)

SpecTwo == Init /\ [][NextTwo]_vars

\* The main thread starts one agent and calls set_user_id and
\* set_report_callback, any number of times; every thread panics; the
\* callbacks add nothing to the report.  A thread
\* that can take a step takes it: the callback and the HTTP call return, and
\* a thread waiting for a lock that is released again and again gets it.
NextLive ==
    \/ \E t \in Hosts : HostStep(t)
    \/ \E t \in Threads : PanicBoom(t)
    \/ \E t \in Threads :
        BuildStep(t) \/ CallbackReturn(t) \/ DeliverStep(t) \/ FallbackStep(t)

Fairness ==
    \A t \in Threads :
        /\ SF_vars(NewPayloadLock(t))
        /\ WF_vars(NewPayloadBoom(t))
        /\ SF_vars(TakeCallbackLock(t))
        /\ WF_vars(TakeCallback(t))
        /\ WF_vars(CallbackReturn(t))
        /\ WF_vars(DeliverStep(t))
        /\ WF_vars(FallbackStep(t))
        /\ WF_vars(SetUserIdStore(t))
        /\ WF_vars(SetReportCallbackStore(t))

SpecLive == Init /\ [][NextLive]_vars /\ Fairness

(***************************************************************************)
(* What the hooks did for the panic thread t is handling.                  *)
(***************************************************************************)
Where(t, e, a) ==
    {i \in DOMAIN events[t] : events[t][i].ev = e /\ events[t][i].agent = a}
Did(t, e, a) == Where(t, e, a) # {}

\* The hook of agent a was invoked for the panic of thread t: by the
\* runtime, or as the old_hook of another agent's hook.
Invoked(t, a) ==
    \E i \in DOMAIN events[t] :
        \/ events[t][i].ev = "panic" /\ events[t][i].agent = a
        \/ events[t][i].ev = "old_hook" /\ old_hook[events[t][i].agent] = a

\* The delivery attempt of agent a's hook has ended, one way or another.
DeliveryEnded(t, a) ==
    Where(t, "no_client", a) \cup Where(t, "log_info", a) \cup Where(t, "log_error", a)

\* The hook of agent a has returned.
Returned(t, a) == Invoked(t, a) /\ pc[t] = "panic_done"

OriginalInfo(t) == events[t][1].arg.info

(***************************************************************************)
(* C1: every invocation of the installed hook calls the captured old_hook  *)
(* exactly once, with the PanicInfo of the panic, after the ManagedError   *)
(* record was built and the delivery attempt ended, whatever the outcome   *)
(* of the delivery.                                                        *)
(***************************************************************************)
C1_OldHookExactlyOnce ==
    \A t \in Threads : \A a \in Agents :
        Invoked(t, a) =>
            /\ Cardinality(Where(t, "old_hook", a)) <= 1
            /\ Returned(t, a) => Cardinality(Where(t, "old_hook", a)) = 1
            /\ pc[t] = "old_hook" /\ cur[t] = a => DeliveryEnded(t, a) # {}
            /\ \A i \in Where(t, "old_hook", a) :
                /\ events[t][i].arg = OriginalInfo(t)
                /\ \E b \in Where(t, "built", a) : b < i
                /\ \E d \in DeliveryEnded(t, a) : d < i
                /\ \A k \in DOMAIN events[t] :
                       k > i => events[t][k].agent # a
                /\ Did(t, "post", a) =>
                       Did(t, "log_info", a) \/ Did(t, "log_error", a)

\* A hook has returned after a delivery that failed.
C1_Witness ==
    \E t \in Threads : \E a \in Agents :
        /\ Returned(t, a)
        /\ Did(t, "log_error", a)
        /\ Did(t, "old_hook", a)

(***************************************************************************)
(* C2: when a callback was installed before the failure, the hook calls a  *)
(* callback exactly once, after the ManagedError record was built and      *)
(* before the report is serialized, at the first failure and at every      *)
(* later one; when none was installed no callback is called.               *)
(***************************************************************************)
InstalledBefore(t, a) == events[t][1].arg.installed[a]

C2_CallbackAtEveryFailure ==
    \A t \in Threads : \A a \in Agents :
        Invoked(t, a) /\ (DeliveryEnded(t, a) # {} \/ Did(t, "post", a)) =>
            IF InstalledBefore(t, a).some
            THEN /\ Cardinality(Where(t, "callback", a)) = 1
                 /\ \A c \in Where(t, "callback", a) :
                        /\ \E b \in Where(t, "built", a) : b < c
                        /\ \A z \in Where(t, "serialized", a) : c < z
            ELSE \A c \in Where(t, "callback", a) :
                     installed[a].some

(***************************************************************************)
(* C3: a hook invocation leaves the stored callback in place: when the     *)
(* hook has returned, the on_report slot holds the callback that           *)
(* set_report_callback stored last.                                        *)
(***************************************************************************)
C3_CallbackKept ==
    \A t \in Threads : \A a \in Agents :
        Returned(t, a) /\ on_report_lock[a] = Free => on_report[a] = installed[a]

(***************************************************************************)
(* C4: in every report the first entry is the ManagedError, every later    *)
(* entry is an ErrorAttachment with that record's id as errorId and its    *)
(* device, and the unreachable!() arm is never taken.                      *)
(***************************************************************************)
C4_ReportShape ==
    /\ \A t \in Threads :
        payload[t] # <<>> =>
            /\ payload[t][1].type = "ManagedError"
            /\ \A i \in 2..Len(payload[t]) :
                /\ payload[t][i].type = "ErrorAttachment"
                /\ payload[t][i].error_id = payload[t][1].id
                /\ payload[t][i].device = payload[t][1].device
                /\ payload[t][i].id # payload[t][1].id
    /\ \A t \in Threads : \A a \in Agents : ~Did(t, "unreachable", a)
    /\ ~aborted

\* A report with a binary and a text attachment.
C4_Witness ==
    \E t \in Threads :
        /\ Len(payload[t]) = 3
        /\ {payload[t][2].content_type, payload[t][3].content_type}
               = {"application/octet_stream", "text/plain"}

(***************************************************************************)
(* The body of the request thread t has in flight.                         *)
(***************************************************************************)
Body(t) == request[t].v.body
BodyLogs(t) == Get(Body(t), "logs").v
BodyFrames(t) == Get(Get(BodyLogs(t)[1], "exception"), "frames").v

(***************************************************************************)
(* C5: the serialized report holds no null: an absent user id leaves out   *)
(* userId, an attachment without file name leaves out fileName, and a      *)
(* frame leaves out each of methodName, lineNumber, fileName and address   *)
(* that is absent.                                                         *)
(***************************************************************************)
C5_AbsentOptionalsOmitted ==
    \A t \in Threads :
        request[t].some =>
            /\ NullCount(Body(t)) = 0
            /\ ~payload[t][1].user_id.some => ~HasKey(BodyLogs(t)[1], "userId")
            /\ \A i \in 2..Len(payload[t]) :
                   ~payload[t][i].file_name.some => ~HasKey(BodyLogs(t)[i], "fileName")
            /\ \A i \in 1..Len(BodyFrames(t)) :
                LET f == payload[t][1].exception.frames[i]
                    j == BodyFrames(t)[i]
                IN /\ ~f.method_name.some => ~HasKey(j, "methodName")
                   /\ ~f.line_number.some => ~HasKey(j, "lineNumber")
                   /\ ~f.file_name.some => ~HasKey(j, "fileName")
                   /\ ~f.address.some => ~HasKey(j, "address")

(***************************************************************************)
(* C6: the exception message starts with the payload when the payload is   *)
(* a string, a &'static str or an owned String; for any other payload the  *)
(* text part is empty.                                                     *)
(***************************************************************************)
IsString(p) == p.kind \in {"str", "String"}
PayloadText(p) == IF IsString(p) THEN p.text ELSE <<>>
Message(t) == payload[t][1].exception.message
\* " at <file>:<line>" for a known location, nothing for an unknown one.
LocationSuffix(loc) ==
    IF loc.some
    THEN <<" ", "a", "t", " ">> \o loc.v.file \o <<":">> \o ToDecimal(loc.v.line)
    ELSE <<>>

C6_MessageStartsWithPayload ==
    \A t \in Threads :
        payload[t] # <<>> =>
            /\ IsString(panic_info[t].payload) =>
                   IsPrefix(panic_info[t].payload.text, Message(t))
            /\ ~IsString(panic_info[t].payload) =>
                   Message(t) = LocationSuffix(panic_info[t].location)

(***************************************************************************)
(* C7: with a known location the message is the payload text followed by   *)
(* " at <file>:<line>" ("boom" at example.rs:42 gives                      *)
(* "boom at example.rs:42"), the type is "panic", and with no location     *)
(* nothing follows the payload text.                                       *)
(***************************************************************************)
Str_boom_at_example_rs_42 ==
    << "b", "o", "o", "m", " ", "a", "t", " ", "e", "x", "a", "m", "p", "l", "e",
       ".", "r", "s", ":", "4", "2" >>

C7_MessageEndsWithLocation ==
    \A t \in Threads :
        payload[t] # <<>> =>
            LET info == panic_info[t]
                text == PayloadText(info.payload)
            IN /\ payload[t][1].exception.type = "panic"
               /\ Message(t) = text \o LocationSuffix(info.location)
               /\ ~info.location.some => Message(t) = text
               /\ ( /\ IsString(info.payload)
                    /\ info.payload.text = Str_boom
                    /\ info.location = Some([file |-> Str_example_rs, line |-> 42]) )
                  => Message(t) = Str_boom_at_example_rs_42

(***************************************************************************)
(* C8: when serializing the report fails, the failure is logged, no        *)
(* request is sent, no new panic is raised and the captured hook still     *)
(* runs.                                                                   *)
(***************************************************************************)
C8_SerializeFailureHandled ==
    \A t \in Threads : \A a \in Agents :
        Did(t, "serialize_failed", a) =>
            /\ ~aborted
            /\ ~Did(t, "post", a)
            /\ Did(t, "log_error", a)
            /\ pc[t] \in {"old_hook", "default_hook", "panic_done"}

(***************************************************************************)
(* C9: a hook invocation posts its report at most once: no second request  *)
(* after a failed or non-2xx delivery, none after the captured hook was    *)
(* called, and no request is kept once send() has returned.                *)
(***************************************************************************)
C9_AtMostOnePost ==
    \A t \in Threads :
        /\ \A a \in Agents :
            /\ Cardinality(Where(t, "post", a)) <= 1
            /\ Cardinality(DeliveryEnded(t, a)) <= 1
            /\ \A p \in Where(t, "post", a) :
                /\ \A h \in Where(t, "old_hook", a) : p < h
                /\ \A d \in DeliveryEnded(t, a) : p < d
        /\ request[t].some <=>
               /\ pc[t] = "sending"
               /\ Did(t, "post", cur[t])
               /\ DeliveryEnded(t, cur[t]) = {}

\* A hook has returned after one request that failed or got a 500.
C9_Witness ==
    \E t \in Threads : \E a \in Agents :
        /\ pc[t] = "old_hook"
        /\ cur[t] = a
        /\ Did(t, "post", a)
        /\ response[t] \in {Some("500"), Some("connect"), Some("timeout")}

(***************************************************************************)
(* C10: the body that is sent is the report as the callback left it: the   *)
(* ManagedError record, then one errorAttachment per add_* call of the     *)
(* callback, in the order of the calls, and nothing else.                  *)
(***************************************************************************)
ContentTypeOf(call) ==
    IF call.fn = "binary" THEN "application/octet_stream" ELSE "text/plain"

C10_BodyIsReportAfterCallback ==
    \A t \in Threads :
        request[t].some =>
            LET a == cur[t]
                built == events[t][CHOOSE b \in Where(t, "built", a) : TRUE].arg
            IN /\ Len(BodyLogs(t)) = 1 + Len(added[t])
               /\ Get(BodyLogs(t)[1], "type").v = "managedError"
               /\ Get(BodyLogs(t)[1], "id").v = UuidText(built)
               /\ \A i \in 1..Len(added[t]) :
                    LET e == BodyLogs(t)[i + 1]
                        call == added[t][i]
                    IN /\ Get(e, "type").v = "errorAttachment"
                       /\ Get(e, "id").v = UuidText(call.id)
                       /\ Get(e, "errorId").v = UuidText(built)
                       /\ Get(e, "contentType").v = ContentTypeOf(call)
                       /\ Get(e, "data").v = base64_encode(call.bytes)
                       /\ HasKey(e, "fileName") <=> call.file_name.some
                       /\ call.file_name.some =>
                              Get(e, "fileName").v = call.file_name.v
               /\ \A z \in Where(t, "serialized", a) :
                    /\ \A c \in Where(t, "callback", a) : c < z
                    /\ Did(t, "callback", a) =>
                           \E r \in Where(t, "callback_returned", a) : r < z

\* A request in flight whose report got two attachments from the callback.
C10_Witness ==
    \E t \in Threads : request[t].some /\ Len(added[t]) = 2

(***************************************************************************)
(* C11: two failures on different threads each build and send a report of  *)
(* their own: the ids of the two ManagedError records differ, no id occurs *)
(* twice in the two reports, and an attachment added by the callback of    *)
(* one invocation is in that invocation's report only and refers to its    *)
(* ManagedError record.                                                    *)
(***************************************************************************)
Ids(logs) == {logs[i].id : i \in DOMAIN logs}
BuiltIds(t) == {events[t][i].arg : i \in Where(t, "built", 1)}

C11_ReportsAreSeparate ==
    /\ \A t \in Threads :
        payload[t] # <<>> =>
            /\ Cardinality(Ids(payload[t])) = Len(payload[t])
            /\ Len(payload[t]) = 1 + Len(added[t])
            /\ \A i \in 1..Len(added[t]) :
                /\ payload[t][i + 1].id = added[t][i].id
                /\ payload[t][i + 1].error_id = payload[t][1].id
            /\ request[t].some =>
                   \A i \in DOMAIN payload[t] :
                       Get(BodyLogs(t)[i], "id").v = UuidText(payload[t][i].id)
    /\ \A t, u \in Threads :
        t # u =>
            /\ BuiltIds(t) \cap BuiltIds(u) = {}
            /\ payload[t] # <<>> /\ payload[u] # <<>> =>
                /\ payload[t][1].id # payload[u][1].id
                /\ Ids(payload[t]) \cap Ids(payload[u]) = {}
                /\ \A i \in 2..Len(payload[u]) :
                       payload[u][i].error_id # payload[t][1].id

\* Two requests in flight at once, each with an attachment.
C11_Witness ==
    /\ \A t \in Threads : request[t].some /\ Len(payload[t]) >= 2
    /\ \E t, u \in Threads : t # u /\ payload[t][1].id # payload[u][1].id

(***************************************************************************)
(* The hook chain and the order in which its hooks ran for a panic.        *)
(***************************************************************************)
\* The hooks a panic raised now would run: the installed one, then the one
\* it captured, and so on down to the hook of before the first start.
RECURSIVE Chain(_)
Chain(h) == IF h = DefaultHook THEN <<DefaultHook>> ELSE <<h>> \o Chain(old_hook[h])

InChain(a) == \E i \in DOMAIN Chain(hook) : Chain(hook)[i] = a

\* The agents of the events of thread t that are of one of the kinds es,
\* in the order of the events.
AgentsOf(t, es) ==
    LET s == SelectSeq(events[t], LAMBDA x : x.ev \in es)
    IN [i \in 1..Len(s) |-> s[i].agent]

Attempts(t) == AgentsOf(t, {"no_client", "log_info", "log_error"})

Desc(n) == [i \in 1..n |-> n + 1 - i]

\* The agents whose start had returned, and those in the middle of their
\* start, when the panic thread t is handling was raised.
StartedAtPanic(t) == {a \in Agents : events[t][1].arg.agents[a] = "started"}
StartingAtPanic(t) == {a \in Agents : events[t][1].arg.agents[a] = "constructed"}

(***************************************************************************)
(* C12: start installs the agent's hook and keeps the hook that was active *)
(* just before as its old_hook; after agents 1..n were started one after   *)
(* another, a failure runs the hooks n, ..., 1 in that order, each with    *)
(* one delivery attempt, and then the hook of before the first start,      *)
(* exactly once.                                                           *)
(***************************************************************************)
C12_ChainRunsNewestFirst ==
    /\ \A a \in Agents :
        astate[a] # "unborn" =>
            old_hook[a] = IF a = 1 THEN DefaultHook ELSE a - 1
    /\ (\A a \in Agents : astate[a] # "constructed") =>
            hook = Cardinality({a \in Agents : astate[a] = "started"})
    /\ \A t \in Threads :
        events[t] # <<>> /\ StartingAtPanic(t) = {} =>
            LET n == Cardinality(StartedAtPanic(t))
            IN /\ IsPrefix(AgentsOf(t, {"built"}), Desc(n))
               /\ IsPrefix(Attempts(t), Desc(n))
               /\ IsPrefix(AgentsOf(t, {"old_hook"}), Desc(n))
               /\ Len(AgentsOf(t, {"default_hook"})) <= 1
               /\ pc[t] = "panic_done" =>
                    /\ AgentsOf(t, {"built"}) = Desc(n)
                    /\ Attempts(t) = Desc(n)
                    /\ AgentsOf(t, {"old_hook"}) = Desc(n)
                    /\ Len(AgentsOf(t, {"default_hook"})) = 1
                    /\ events[t][Len(events[t])].ev = "default_hook"

\* A failure raised after two starts has run both hooks and the first hook.
C12_Witness ==
    \E t \in Threads :
        /\ pc[t] = "panic_done"
        /\ AgentsOf(t, {"built"}) = <<2, 1>>
        /\ Attempts(t) = <<2, 1>>
        /\ Len(AgentsOf(t, {"default_hook"})) = 1

(***************************************************************************)
(* C13: once start has returned for an agent, its hook is installed in     *)
(* every later state, and every later failure runs it, also while another  *)
(* agent is between its take_hook and its set_hook.                        *)
(***************************************************************************)
C13_HandlerStaysInstalled ==
    /\ \A a \in Agents : astate[a] = "started" => InChain(a)
    /\ \A t \in Threads : \A a \in Agents :
        /\ events[t] # <<>>
        /\ a \in StartedAtPanic(t)
        /\ pc[t] = "panic_done"
        => Did(t, "built", a)

(***************************************************************************)
(* C14: a call of add_binary_attachement or add_text_attachement appends   *)
(* one ErrorAttachment and leaves the entries before it as they were; the  *)
(* new entry has a fresh id and the file name given (none when none is     *)
(* given); for add_binary_attachement the content type is                  *)
(* "application/octet_stream" and the data are the bytes given, for        *)
(* add_text_attachement the content type is "text/plain" and the data are  *)
(* the UTF-8 bytes of the text ("h" U+00E9 gives 104, 195, 169).           *)
(***************************************************************************)
Last(seq) == seq[Len(seq)]

C14_AddAppendsOneAttachment ==
    [][ \A t \in Threads :
          Len(added'[t]) = Len(added[t]) + 1 =>
              LET call == Last(added'[t])
                  e == Last(payload'[t])
              IN /\ Len(payload'[t]) = Len(payload[t]) + 1
                 /\ SubSeq(payload'[t], 1, Len(payload[t])) = payload[t]
                 /\ e.type = "ErrorAttachment"
                 /\ e.id \notin Ids(payload[t])
                 /\ e.file_name = call.arg.file_name
                 /\ call.fn = "binary" =>
                        /\ e.content_type = "application/octet_stream"
                        /\ e.data = call.arg.data
                 /\ call.fn = "text" =>
                        /\ e.content_type = "text/plain"
                        /\ \A i \in DOMAIN e.data : e.data[i] \in 0..255
                        /\ call.arg.text = <<104, 233>> => e.data = <<104, 195, 169>>
      ]_vars

\* The callback has added a text attachment with a file name after a binary
\* one without.
C14_Witness ==
    \E t \in Threads :
        /\ Len(added[t]) = 2
        /\ added[t][1].fn = "binary"
        /\ added[t][2].fn = "text"
        /\ ~payload[t][2].file_name.some
        /\ payload[t][3].file_name = Some("note.txt")
        /\ payload[t][3].data = <<104, 195, 169>>

(***************************************************************************)
(* C15: a hook holds the user_id lock only while new_payload reads the     *)
(* user id and the on_report lock only while it takes the callback; while  *)
(* it runs the callback, delivers the report or runs the captured hook it  *)
(* holds no lock of any agent, so that no set_user_id or                   *)
(* set_report_callback waits for it.                                       *)
(***************************************************************************)
C15_NoLockAcrossCallbackOrDelivery ==
    \A t \in Threads : \A a \in Agents :
        /\ user_id_lock[a] = t =>
               pc[t] \in {"new_payload_locked", "set_user_id"} /\ cur[t] = a
        /\ on_report_lock[a] = t =>
               pc[t] \in {"take_callback_locked", "set_report_callback"} /\ cur[t] = a
        /\ pc[t] \in {"callback", "deliver", "sending", "old_hook",
                      "default_hook", "panic_done"} =>
               user_id_lock[a] # t /\ on_report_lock[a] # t

\* set_user_id and set_report_callback hold their locks on the main thread
\* while a hook is inside the callback or waits for the server.
C15_Witness ==
    \E t, u \in Threads : \E a \in Agents :
        /\ pc[t] \in {"callback", "sending"}
        /\ cur[t] = a
        /\ user_id_lock[a] = u \/ on_report_lock[a] = u

(***************************************************************************)
(* C16: the userId of a report is read once, under the user_id lock, when  *)
(* the report is built: it is the value the last completed set_user_id     *)
(* stored (absent when none did or the last one cleared it), it stays as   *)
(* read until the report is sent, and the body that is sent carries it,    *)
(* whatever set_user_id stores after the read.                             *)
(***************************************************************************)
BodyFirstLog(req) == Get(req.v.body, "logs").v[1]

C16_UserIdIsSnapshot ==
    [][ \A t \in Threads :
          /\ pc[t] = "new_payload_locked" =>
                /\ user_id' = user_id
                /\ payload'[t] # <<>> =>
                       /\ payload'[t][1].user_id = user_id[cur[t]]
                       /\ payload'[t][1].user_id \in UserIdArgs
          /\ payload[t] # <<>> /\ payload'[t] # <<>> =>
                payload'[t][1].user_id = payload[t][1].user_id
          /\ request'[t].some =>
                LET uid == payload'[t][1].user_id
                    log == BodyFirstLog(request'[t])
                IN IF uid.some
                   THEN HasKey(log, "userId") /\ Get(log, "userId") = JStr(uid.v)
                   ELSE ~HasKey(log, "userId") \/ Get(log, "userId") = JNull
      ]_vars

\* A request in flight whose user id is no longer the one stored.
C16_Witness ==
    \E t \in Threads :
        /\ request[t].some
        /\ payload[t][1].user_id # user_id[cur[t]]
        /\ payload[t][1].user_id = Some(Str_alice)

(***************************************************************************)
(* C17: a stored callback never runs in two hook invocations at once: two  *)
(* threads that are inside a callback at the same moment are inside        *)
(* different stored callbacks.                                             *)
(***************************************************************************)
C17_CallbackNotRunTwiceAtOnce ==
    \A t, u \in Threads :
        t # u /\ pc[t] = "callback" /\ pc[u] = "callback" =>
            /\ report_callback[t].some
            /\ report_callback[u].some
            /\ report_callback[t].v.box # report_callback[u].v.box

\* Two threads are inside a callback at the same moment.
C17_Witness ==
    \A t \in Threads : pc[t] = "callback" /\ report_callback[t].some

C19_RacingStartsKeepBoth ==
    /\ (\A a \in Agents : astate[a] = "started") =>
        /\ Len(Chain(hook)) = Cardinality(Agents) + 1
        /\ \A a \in Agents : InChain(a)
        /\ Chain(hook)[Len(Chain(hook))] = DefaultHook
    /\ \A t \in Threads :
        /\ events[t] # <<>>
        /\ StartedAtPanic(t) = Agents
        /\ pc[t] = "panic_done"
        => /\ Len(Attempts(t)) = Cardinality(Agents)
           /\ \A a \in Agents : \E i \in DOMAIN Attempts(t) : Attempts(t)[i] = a
           /\ Len(AgentsOf(t, {"default_hook"})) = 1

====
